---- MODULE Spec2Model ----
(***************************************************************************)
(* scripts/aws_vpc.py: a flat script that probes the region for a free     *)
(* VPC name and then provisions a VPC, an internet gateway, a subnet, a    *)
(* route and a security group through sequential EC2 API calls.            *)
(*                                                                         *)
(* The model holds the EC2 state of one region and MaxRuns invocations of  *)
(* the script against it.  Every API call of the script is one step of a   *)
(* run; any API call may instead raise, which ends the run.                *)
(***************************************************************************)
EXTENDS Integers, Sequences, FiniteSets, TLC

\* Number of invocations of the script (numbered in the order they start).
MaxRuns == 2
\* VPCs that exist before the first run carry names among
\* base_name, base_name_1 .. base_name_MaxPre.
MaxPre == 0
\* VPCs other users of the region delete between runs.
MaxDeletes == 1
\* Runs that end in an API failure, where VPCs are also being deleted.
MaxFailures == 1
\* Cap on the probe counter i; above every suffix a run can reach unless
\* the probe fails to advance or another actor keeps taking names.
MaxProbe == MaxPre + MaxRuns + 2

Runs == 1..MaxRuns

----------------------------------------------------------------------------
\* Program constants.

region == "eu-west-1"
base_name == "vpc_image"
cidr_block == "10.0.0.0/24"
tenancy == "default"
AnyCidr == "0.0.0.0/0"
SshPort == 22

\* f"{base_name}_{i}"
NewName(i) == base_name \o "_" \o ToString(i)

\* The five Name tags derived from vpc_name.
IgwName(n) == n \o "-igw"
SubnetName(n) == n \o "-subnet"
RtName(n) == n \o "-rt"
SgName(n) == n \o "-sg"

----------------------------------------------------------------------------
\* Identifiers handed out by EC2: opaque and never reused.  The identifier
\* of the resource of a kind created by run r is kind-r.

NoId == ""
NewId(kind, r) == kind \o "-" \o ToString(r)
\* The VPC that carries the k-th candidate name before the first run.
PreId(k) == "vpc-pre" \o ToString(k)
PreName(k) == IF k = 0 THEN base_name ELSE NewName(k)

VARIABLES
    \* EC2 state of the region
    vpcs,           \* VpcId -> [CidrBlock, InstanceTenancy]
    tags,           \* resource id -> value of its Name tag
    igws,           \* InternetGatewayId -> attached VpcId, or NoId
    subnets,        \* SubnetId -> [VpcId, CidrBlock]
    rtbs,           \* RouteTableId -> VpcId
    routes,         \* set of [RouteTableId, DestinationCidrBlock, GatewayId]
    assocs,         \* set of [RouteTableId, SubnetId]
    sgs,            \* GroupId -> [GroupName, Description, VpcId]
    ingress,        \* set of [GroupId, IpProtocol, FromPort, ToPort, CidrIp]
    \* per run: position and the script's variables
    pc, i, new_name, vpc_name, existing_vpcs,
    vpc_id, igw_id, subnet_id, route_table_id, sg_id,
    calls,          \* per run: the API calls issued so far, in order
    output,         \* per run: the lines printed
    seen,           \* per run: the VPC Name tags in the region at the run's last describe_vpcs
    before,         \* per run: the resources of the region when the run started
    deleted         \* number of VPCs deleted by other users of the region

cloud == <<vpcs, tags, igws, subnets, rtbs, routes, assocs, sgs, ingress>>
probe == <<i, new_name, vpc_name, existing_vpcs, seen>>
idents == <<vpc_id, igw_id, subnet_id, route_table_id, sg_id>>
vars == <<cloud, pc, probe, idents, calls, output, before, deleted>>

Put(f, k, v) == [x \in DOMAIN f \cup {k} |-> IF x = k THEN v ELSE f[x]]
Without(f, ks) == [x \in DOMAIN f \ ks |-> f[x]]

\* describe_vpcs(Filters=[tag:Name = name])['Vpcs']
VpcsTagged(name) == {v \in DOMAIN vpcs : v \in DOMAIN tags /\ tags[v] = name}
\* The Name tags carried by VPCs.
VpcNames == {tags[v] : v \in DOMAIN vpcs \cap DOMAIN tags}

Snapshot ==
    [vpcs |-> DOMAIN vpcs, igws |-> DOMAIN igws, subnets |-> DOMAIN subnets,
     rtbs |-> DOMAIN rtbs, sgs |-> DOMAIN sgs]
NoSnapshot == [vpcs |-> {}, igws |-> {}, subnets |-> {}, rtbs |-> {}, sgs |-> {}]

Init ==
    /\ \E S \in SUBSET (0..MaxPre) :
        /\ vpcs = [v \in {PreId(k) : k \in S} |->
                     [CidrBlock |-> cidr_block, InstanceTenancy |-> tenancy]]
        /\ tags = [v \in {PreId(k) : k \in S} |->
                     PreName(CHOOSE k \in S : PreId(k) = v)]
    /\ igws = <<>> /\ subnets = <<>> /\ rtbs = <<>> /\ sgs = <<>>
    /\ routes = {} /\ assocs = {} /\ ingress = {}
    /\ pc = [r \in Runs |-> "idle"]
    /\ i = [r \in Runs |-> 0]
    /\ new_name = [r \in Runs |-> ""]
    /\ vpc_name = [r \in Runs |-> ""]
    /\ existing_vpcs = [r \in Runs |-> {}]
    /\ vpc_id = [r \in Runs |-> NoId]
    /\ igw_id = [r \in Runs |-> NoId]
    /\ subnet_id = [r \in Runs |-> NoId]
    /\ route_table_id = [r \in Runs |-> NoId]
    /\ sg_id = [r \in Runs |-> NoId]
    /\ calls = [r \in Runs |-> <<>>]
    /\ output = [r \in Runs |-> <<>>]
    /\ seen = [r \in Runs |-> {}]
    /\ before = [r \in Runs |-> NoSnapshot]
    /\ deleted = 0

----------------------------------------------------------------------------
\* The API call a run is about to issue: operation, the identifiers passed
\* and the Name value (or filter value) passed.

Req(op, ids, val) == [op |-> op, ids |-> ids, val |-> val]

Request(r) ==
    CASE pc[r] = "describe_base" -> Req("describe_vpcs", {}, base_name)
      [] pc[r] = "describe_new" -> Req("describe_vpcs", {}, NewName(i[r]))
      [] pc[r] = "create_vpc" -> Req("create_vpc", {}, "")
      [] pc[r] = "tag_vpc" -> Req("create_tags", {vpc_id[r]}, vpc_name[r])
      [] pc[r] = "create_igw" -> Req("create_internet_gateway", {}, "")
      [] pc[r] = "attach_igw" ->
            Req("attach_internet_gateway", {igw_id[r], vpc_id[r]}, "")
      [] pc[r] = "tag_igw" -> Req("create_tags", {igw_id[r]}, IgwName(vpc_name[r]))
      [] pc[r] = "create_subnet" -> Req("create_subnet", {vpc_id[r]}, "")
      [] pc[r] = "tag_subnet" ->
            Req("create_tags", {subnet_id[r]}, SubnetName(vpc_name[r]))
      [] pc[r] = "describe_rtb" -> Req("describe_route_tables", {vpc_id[r]}, "")
      [] pc[r] = "create_route" ->
            Req("create_route", {route_table_id[r], igw_id[r]}, "")
      [] pc[r] = "associate_rtb" ->
            Req("associate_route_table", {route_table_id[r], subnet_id[r]}, "")
      [] pc[r] = "tag_rtb" ->
            Req("create_tags", {route_table_id[r]}, RtName(vpc_name[r]))
      [] pc[r] = "create_sg" ->
            Req("create_security_group", {vpc_id[r]}, SgName(vpc_name[r]))
      [] pc[r] = "authorize_sg" ->
            Req("authorize_security_group_ingress", {sg_id[r]}, "")
      [] pc[r] = "tag_sg" -> Req("create_tags", {sg_id[r]}, SgName(vpc_name[r]))

ApiPcs ==
    {"describe_base", "describe_new", "create_vpc", "tag_vpc", "create_igw",
     "attach_igw", "tag_igw", "create_subnet", "tag_subnet", "describe_rtb",
     "create_route", "associate_rtb", "tag_rtb", "create_sg", "authorize_sg",
     "tag_sg"}

\* The call is issued; it returns the identifiers ret, or raises (ok = FALSE).
Issue(r, ret, ok) ==
    calls' = [calls EXCEPT ![r] =
                Append(@, [op |-> Request(r).op, ids |-> Request(r).ids,
                           val |-> Request(r).val, ret |-> ret, ok |-> ok])]

Goto(r, l) == pc' = [pc EXCEPT ![r] = l]

----------------------------------------------------------------------------
\* The script, statement by statement.

\* The runs in progress.
Active == {r \in Runs : pc[r] \notin {"idle", "done", "failed"}}

\* The script is invoked: region is read and the client is created.  Runs are
\* numbered in the order they start.
Start(r) ==
    /\ pc[r] = "idle"
    /\ \A q \in Runs : q < r => pc[q] # "idle"
    /\ Goto(r, "describe_base")
    /\ before' = [before EXCEPT ![r] = Snapshot]
    /\ UNCHANGED <<cloud, probe, idents, calls, output, deleted>>

\* Variants: the base name is never tried, or never checked.
BaseTaken_Always(found) == TRUE
BaseTaken_Never(found) == FALSE
\* if existing_vpcs:
BaseTaken(found) == found # {}

\* Variant: the suffixes start at 2.
FirstSuffix_Two == 1 + 1
\* i = 1
FirstSuffix == 1

\* Variant: the loop stops at a name that is in use.
LoopExit_Inverted(found) == found # {}
\* if not existing_vpcs: break
LoopExit(found) == found = {}

\* i += 1
NextSuffix(k) == k + 1

\* existing_vpcs = describe_vpcs(tag:Name = base_name); if existing_vpcs: i = 1
\* ... else: vpc_name = base_name
DescribeBase(r) ==
    /\ pc[r] = "describe_base"
    /\ Issue(r, VpcsTagged(base_name), TRUE)
    /\ existing_vpcs' = [existing_vpcs EXCEPT ![r] = VpcsTagged(base_name)]
    /\ seen' = [seen EXCEPT ![r] = VpcNames]
    /\ IF BaseTaken(VpcsTagged(base_name))
         THEN /\ i' = [i EXCEPT ![r] = FirstSuffix]
              /\ Goto(r, "describe_new")
              /\ UNCHANGED vpc_name
         ELSE /\ vpc_name' = [vpc_name EXCEPT ![r] = base_name]
              /\ Goto(r, "create_vpc")
              /\ UNCHANGED i
    /\ UNCHANGED <<cloud, new_name, idents, output, before, deleted>>

\* One iteration of the while True loop.
DescribeNew(r) ==
    /\ pc[r] = "describe_new"
    /\ i[r] < MaxProbe
    /\ Issue(r, VpcsTagged(NewName(i[r])), TRUE)
    /\ new_name' = [new_name EXCEPT ![r] = NewName(i[r])]
    /\ existing_vpcs' = [existing_vpcs EXCEPT ![r] = VpcsTagged(NewName(i[r]))]
    /\ seen' = [seen EXCEPT ![r] = VpcNames]
    /\ IF LoopExit(VpcsTagged(NewName(i[r])))
         THEN /\ vpc_name' = [vpc_name EXCEPT ![r] = NewName(i[r])]
              /\ Goto(r, "create_vpc")
              /\ UNCHANGED i
         ELSE /\ i' = [i EXCEPT ![r] = NextSuffix(i[r])]
              /\ UNCHANGED <<pc, vpc_name>>
    /\ UNCHANGED <<cloud, idents, output, before, deleted>>

\* Variant: a VPC that already carries the base name is reused.
CreateVpc_Reuse(r) ==
    /\ pc[r] = "create_vpc"
    /\ IF VpcsTagged(base_name) # {}
         THEN /\ \E v \in VpcsTagged(base_name) :
                    /\ Issue(r, {v}, TRUE)
                    /\ vpc_id' = [vpc_id EXCEPT ![r] = v]
              /\ UNCHANGED <<vpcs, rtbs>>
         ELSE /\ Issue(r, {NewId("vpc", r)}, TRUE)
              /\ vpcs' = Put(vpcs, NewId("vpc", r),
                             [CidrBlock |-> cidr_block, InstanceTenancy |-> tenancy])
              /\ rtbs' = Put(rtbs, NewId("rtb", r), NewId("vpc", r))
              /\ vpc_id' = [vpc_id EXCEPT ![r] = NewId("vpc", r)]
    /\ Goto(r, "tag_vpc")
    /\ UNCHANGED <<tags, igws, subnets, routes, assocs, sgs, ingress, probe,
                   igw_id, subnet_id, route_table_id, sg_id, output, before, deleted>>

\* response = create_vpc(...); vpc_id = response['Vpc']['VpcId'].  EC2 creates
\* the main route table of the VPC with it.
CreateVpc(r) ==
    /\ pc[r] = "create_vpc"
    /\ Issue(r, {NewId("vpc", r)}, TRUE)
    /\ vpcs' = Put(vpcs, NewId("vpc", r),
                   [CidrBlock |-> cidr_block, InstanceTenancy |-> tenancy])
    /\ rtbs' = Put(rtbs, NewId("rtb", r), NewId("vpc", r))
    /\ vpc_id' = [vpc_id EXCEPT ![r] = NewId("vpc", r)]
    /\ Goto(r, "tag_vpc")
    /\ UNCHANGED <<tags, igws, subnets, routes, assocs, sgs, ingress, probe,
                   igw_id, subnet_id, route_table_id, sg_id, output, before, deleted>>

\* create_tags(Resources=[res], Tags=[Name = val]), then on to statement l.
CreateTags(r, res, val, l) ==
    /\ Issue(r, {}, TRUE)
    /\ tags' = Put(tags, res, val)
    /\ Goto(r, l)
    /\ UNCHANGED <<vpcs, igws, subnets, rtbs, routes, assocs, sgs, ingress,
                   probe, idents, output, before, deleted>>

\* Variant: the name is checked again and the tag is skipped when it is taken.
TagVpc_IfFree(r) ==
    /\ pc[r] = "tag_vpc"
    /\ IF VpcsTagged(vpc_name[r]) = {}
         THEN CreateTags(r, vpc_id[r], vpc_name[r], "create_igw")
         ELSE /\ Goto(r, "create_igw")
              /\ UNCHANGED <<cloud, probe, idents, calls, output, before, deleted>>

TagVpc(r) ==
    /\ pc[r] = "tag_vpc"
    /\ CreateTags(r, vpc_id[r], vpc_name[r], "create_igw")

CreateIgw(r) ==
    /\ pc[r] = "create_igw"
    /\ Issue(r, {NewId("igw", r)}, TRUE)
    /\ igws' = Put(igws, NewId("igw", r), NoId)
    /\ igw_id' = [igw_id EXCEPT ![r] = NewId("igw", r)]
    /\ Goto(r, "attach_igw")
    /\ UNCHANGED <<vpcs, tags, subnets, rtbs, routes, assocs, sgs, ingress, probe,
                   vpc_id, subnet_id, route_table_id, sg_id, output, before, deleted>>

\* Variant: the gateway is not tagged.
AttachIgw_SkipTag(r) ==
    /\ pc[r] = "attach_igw"
    /\ Issue(r, {}, TRUE)
    /\ igws' = Put(igws, igw_id[r], vpc_id[r])
    /\ Goto(r, "create_subnet")
    /\ UNCHANGED <<vpcs, tags, subnets, rtbs, routes, assocs, sgs, ingress, probe,
                   idents, output, before, deleted>>

AttachIgw(r) ==
    /\ pc[r] = "attach_igw"
    /\ Issue(r, {}, TRUE)
    /\ igws' = Put(igws, igw_id[r], vpc_id[r])
    /\ Goto(r, "tag_igw")
    /\ UNCHANGED <<vpcs, tags, subnets, rtbs, routes, assocs, sgs, ingress, probe,
                   idents, output, before, deleted>>

TagIgw(r) ==
    /\ pc[r] = "tag_igw"
    /\ CreateTags(r, igw_id[r], IgwName(vpc_name[r]), "create_subnet")

CreateSubnet(r) ==
    /\ pc[r] = "create_subnet"
    /\ Issue(r, {NewId("subnet", r)}, TRUE)
    /\ subnets' = Put(subnets, NewId("subnet", r),
                      [VpcId |-> vpc_id[r], CidrBlock |-> cidr_block])
    /\ subnet_id' = [subnet_id EXCEPT ![r] = NewId("subnet", r)]
    /\ Goto(r, "tag_subnet")
    /\ UNCHANGED <<vpcs, tags, igws, rtbs, routes, assocs, sgs, ingress, probe,
                   vpc_id, igw_id, route_table_id, sg_id, output, before, deleted>>

TagSubnet(r) ==
    /\ pc[r] = "tag_subnet"
    /\ CreateTags(r, subnet_id[r], SubnetName(vpc_name[r]), "describe_rtb")

\* describe_route_tables(vpc-id = vpc_id)['RouteTables'][0]['RouteTableId']
\* Variant: the vpc-id filter is missing.
RouteTablesOf_Unfiltered(v) == DOMAIN rtbs
RouteTablesOf(v) == {t \in DOMAIN rtbs : rtbs[t] = v}

\* The VPC of the run always has its main route table here, so the [0]
\* index finds one.
DescribeRouteTables(r) ==
    /\ pc[r] = "describe_rtb"
    /\ \E t \in RouteTablesOf(vpc_id[r]) :
        /\ Issue(r, {t}, TRUE)
        /\ route_table_id' = [route_table_id EXCEPT ![r] = t]
    /\ Goto(r, "create_route")
    /\ UNCHANGED <<cloud, probe, vpc_id, igw_id, subnet_id, sg_id, output, before, deleted>>

CreateRoute(r) ==
    /\ pc[r] = "create_route"
    /\ Issue(r, {}, TRUE)
    /\ routes' = routes \cup
          {[RouteTableId |-> route_table_id[r], DestinationCidrBlock |-> AnyCidr,
            GatewayId |-> igw_id[r]]}
    /\ Goto(r, "associate_rtb")
    /\ UNCHANGED <<vpcs, tags, igws, subnets, rtbs, assocs, sgs, ingress, probe,
                   idents, output, before, deleted>>

AssociateRouteTable(r) ==
    /\ pc[r] = "associate_rtb"
    /\ Issue(r, {}, TRUE)
    /\ assocs' = assocs \cup
          {[RouteTableId |-> route_table_id[r], SubnetId |-> subnet_id[r]]}
    /\ Goto(r, "tag_rtb")
    /\ UNCHANGED <<vpcs, tags, igws, subnets, rtbs, routes, sgs, ingress, probe,
                   idents, output, before, deleted>>

TagRouteTable(r) ==
    /\ pc[r] = "tag_rtb"
    /\ CreateTags(r, route_table_id[r], RtName(vpc_name[r]), "create_sg")

CreateSecurityGroup(r) ==
    /\ pc[r] = "create_sg"
    /\ Issue(r, {NewId("sg", r)}, TRUE)
    /\ sgs' = Put(sgs, NewId("sg", r),
                  [GroupName |-> SgName(vpc_name[r]),
                   Description |-> "SSH access from anywhere",
                   VpcId |-> vpc_id[r]])
    /\ sg_id' = [sg_id EXCEPT ![r] = NewId("sg", r)]
    /\ Goto(r, "authorize_sg")
    /\ UNCHANGED <<vpcs, tags, igws, subnets, rtbs, routes, assocs, ingress, probe,
                   vpc_id, igw_id, subnet_id, route_table_id, output, before, deleted>>

AuthorizeIngress(r) ==
    /\ pc[r] = "authorize_sg"
    /\ Issue(r, {}, TRUE)
    /\ ingress' = ingress \cup
          {[GroupId |-> sg_id[r], IpProtocol |-> "tcp", FromPort |-> SshPort,
            ToPort |-> SshPort, CidrIp |-> AnyCidr]}
    /\ Goto(r, "tag_sg")
    /\ UNCHANGED <<vpcs, tags, igws, subnets, rtbs, routes, assocs, sgs, probe,
                   idents, output, before, deleted>>

TagSecurityGroup(r) ==
    /\ pc[r] = "tag_sg"
    /\ CreateTags(r, sg_id[r], SgName(vpc_name[r]), "print")

\* The five print statements that end the script.
Summary(r) ==
    << "VPC '" \o vpc_name[r] \o "' created with ID '" \o vpc_id[r]
         \o "' in region '" \o region \o "'.",
       "Internet gateway created with ID '" \o igw_id[r]
         \o "' and attached to VPC '" \o vpc_name[r] \o "'.",
       "Subnet created with ID '" \o subnet_id[r] \o "' in VPC '"
         \o vpc_name[r] \o "'.",
       "Route table '" \o route_table_id[r] \o "' associated with subnet '"
         \o subnet_id[r] \o "'.",
       "Security group '" \o sg_id[r] \o "' created for VPC '"
         \o vpc_name[r] \o "'." >>

PrintSummary(r) ==
    /\ pc[r] = "print"
    /\ output' = [output EXCEPT ![r] = Summary(r)]
    /\ Goto(r, "done")
    /\ before' = [before EXCEPT ![r] = NoSnapshot]
    /\ UNCHANGED <<cloud, probe, idents, calls, deleted>>

\* Variant: the exception is caught and the call is issued again.
ApiFail_Retry(r) ==
    /\ pc[r] \in ApiPcs
    /\ Len(calls[r]) < 2 * Cardinality(ApiPcs)
    /\ Issue(r, {}, FALSE)
    /\ UNCHANGED <<cloud, pc, probe, idents, output, before, deleted>>

\* Variant: the VPC of the run is deleted before the run ends.
ApiFail_Rollback(r) ==
    /\ pc[r] \in ApiPcs
    /\ Issue(r, {}, FALSE)
    /\ Goto(r, "failed")
    /\ vpcs' = Without(vpcs, {vpc_id[r]})
    /\ tags' = Without(tags, {vpc_id[r]})
    /\ before' = [before EXCEPT ![r] = NoSnapshot]
    /\ UNCHANGED <<igws, subnets, rtbs, routes, assocs, sgs, ingress, probe,
                   idents, output, deleted>>

\* The API call the run is at raises: the exception is not caught anywhere,
\* so the interpreter exits; nothing is undone.
ApiFail(r) ==
    /\ pc[r] \in ApiPcs
    /\ Issue(r, {}, FALSE)
    /\ Goto(r, "failed")
    /\ before' = [before EXCEPT ![r] = NoSnapshot]
    /\ UNCHANGED <<cloud, probe, idents, output, deleted>>

Step(r) ==
    \/ DescribeBase(r) \/ DescribeNew(r)
    \/ CreateVpc(r) \/ TagVpc(r)
    \/ CreateIgw(r) \/ AttachIgw(r) \/ TagIgw(r)
    \/ CreateSubnet(r) \/ TagSubnet(r)
    \/ DescribeRouteTables(r) \/ CreateRoute(r) \/ AssociateRouteTable(r)
    \/ TagRouteTable(r)
    \/ CreateSecurityGroup(r) \/ AuthorizeIngress(r) \/ TagSecurityGroup(r)
    \/ PrintSummary(r)

\* A run starts while at most one other run is in progress.
StartOverlapping(r) ==
    /\ \A p, q \in Active : p = q
    /\ Start(r)

\* A run starts when no other run is in progress.
StartAlone(r) ==
    /\ Active = {}
    /\ Start(r)

\* An API call raises, in one of at most MaxFailures runs.
ApiFailSome(r) ==
    /\ Cardinality({q \in Runs : pc[q] = "failed"}) < MaxFailures
    /\ ApiFail(r)

\* Another user of the region deletes a VPC between two runs, with what it
\* holds: its subnets, route tables and security groups, and the internet
\* gateways attached to it.
DeleteVpc(v) ==
    /\ Active = {}
    /\ \E q \in Runs : pc[q] \in {"done", "failed"}
    /\ \E q \in Runs : pc[q] = "idle"
    /\ deleted < MaxDeletes
    /\ deleted' = deleted + 1
    /\ v \in DOMAIN vpcs
    /\ LET gone == {v}
                 \cup {x \in DOMAIN igws : igws[x] = v}
                 \cup {x \in DOMAIN subnets : subnets[x].VpcId = v}
                 \cup {x \in DOMAIN rtbs : rtbs[x] = v}
                 \cup {x \in DOMAIN sgs : sgs[x].VpcId = v}
       IN /\ vpcs' = Without(vpcs, gone)
          /\ igws' = Without(igws, gone)
          /\ subnets' = Without(subnets, gone)
          /\ rtbs' = Without(rtbs, gone)
          /\ sgs' = Without(sgs, gone)
          /\ tags' = Without(tags, gone)
          /\ routes' = {x \in routes : x.RouteTableId \notin gone}
          /\ assocs' = {x \in assocs : x.RouteTableId \notin gone}
          /\ ingress' = {x \in ingress : x.GroupId \notin gone}
    /\ UNCHANGED <<pc, probe, idents, calls, output, before>>

\* Runs of the script strictly one after another; any API call may raise.
Next == \E r \in Runs : StartAlone(r) \/ Step(r) \/ ApiFail(r)

Spec == Init /\ [][Next]_vars

\* Runs of the script against the same region, two of them at a time.
NextRace == \E r \in Runs : StartOverlapping(r) \/ Step(r)

SpecRace == Init /\ [][NextRace]_vars

\* Runs of the script strictly one after another; any API call may raise and
\* VPCs may be deleted between runs.
NextSeq ==
    \/ \E r \in Runs : StartAlone(r) \/ Step(r) \/ ApiFailSome(r)
    \/ \E v \in DOMAIN vpcs : DeleteVpc(v)

SpecSeq == Init /\ [][NextSeq]_vars

\* Runs strictly one after another with no API failure; a run that has
\* started keeps executing.
NextLive ==
    \/ \E r \in Runs : StartAlone(r) \/ Step(r)
    \/ \E v \in DOMAIN vpcs : DeleteVpc(v)

SpecLive == Init /\ [][NextLive]_vars /\ \A r \in Runs : WF_vars(Step(r))

\* Another user of the region creates a VPC that carries the name a run is
\* about to probe.
TakeProbedName(r) ==
    /\ pc[r] = "describe_new"
    /\ VpcsTagged(NewName(i[r])) = {}
    /\ vpcs' = Put(vpcs, "vpc-ext" \o ToString(i[r]),
                   [CidrBlock |-> cidr_block, InstanceTenancy |-> tenancy])
    /\ tags' = Put(tags, "vpc-ext" \o ToString(i[r]), NewName(i[r]))
    /\ UNCHANGED <<igws, subnets, rtbs, routes, assocs, sgs, ingress, pc, probe,
                   idents, calls, output, before, deleted>>

NextAdv == \E r \in Runs : StartAlone(r) \/ Step(r) \/ TakeProbedName(r)

SpecAdv == Init /\ [][NextAdv]_vars /\ \A r \in Runs : WF_vars(Step(r))

----------------------------------------------------------------------------
\* What the properties below read off a state.

IsDescribeVpcs(c) == c.op = "describe_vpcs"
IsProvisioning(c) == c.op # "describe_vpcs"
OpOf(cs) == [k \in 1..Len(cs) |-> cs[k].op]

\* The calls of a run after the name probe, and the number of probe calls.
AfterProbe(r) == OpOf(SelectSeq(calls[r], IsProvisioning))
ProbeCalls(r) == Len(SelectSeq(calls[r], IsDescribeVpcs))

IsPrefix(s, t) == Len(s) <= Len(t) /\ \A k \in 1..Len(s) : s[k] = t[k]

HasOk(r, op) == \E k \in 1..Len(calls[r]) : calls[r][k].op = op /\ calls[r][k].ok

TagOf(x) == IF x \in DOMAIN tags THEN tags[x] ELSE ""

\* The least i >= 1 such that no VPC carries the Name tag vpc_image_<i>.
LeastFree ==
    CHOOSE k \in 1..MaxProbe :
        /\ NewName(k) \notin VpcNames
        /\ \A j \in 1..(k - 1) : NewName(j) \in VpcNames

\* The probe of run r has just finished: nothing in the region has changed
\* since its last describe_vpcs.
ProbeFinished(r) == pc[r] = "create_vpc"

\* VPCs that carry a suffixed name vpc_image_<i>.
SuffixedVpcs ==
    {v \in DOMAIN vpcs : \E k \in 1..MaxProbe : TagOf(v) = NewName(k)}

----------------------------------------------------------------------------
\* C1 (as stated): when the probe finishes, the chosen name is vpc_image_<i>
\* for the least i >= 1 such that no existing VPC is tagged vpc_image_<i>.
C1_AlwaysSuffixed ==
    \A r \in Runs : ProbeFinished(r) => vpc_name[r] = NewName(LeastFree)

\* C1 (amended): when a VPC tagged vpc_image exists, the chosen name is
\* vpc_image_<i> for the least i >= 1 such that no existing VPC is tagged
\* vpc_image_<i>; when none exists, the chosen name is vpc_image itself.
C1_LeastSuffixWhenBaseTaken ==
    \A r \in Runs :
        ProbeFinished(r) =>
            vpc_name[r] = IF base_name \in VpcNames THEN NewName(LeastFree)
                                                     ELSE base_name

C1_Witness ==
    \E r \in Runs :
        /\ ProbeFinished(r)
        /\ {base_name, NewName(1)} \subseteq VpcNames
        /\ vpc_name[r] = "vpc_image_2"

\* C2: two runs whose probes saw the same VPC names select the same name,
\* and once both have tagged their VPCs the region holds two distinct VPCs
\* that carry it: the probe does not allocate names safely under concurrency.
PastTagVpc(r) ==
    pc[r] \notin {"idle", "describe_base", "describe_new", "create_vpc",
                  "tag_vpc", "failed"}

C2_RacingRunsShareName ==
    \A r, q \in Runs :
        (r # q /\ vpc_name[r] # "" /\ vpc_name[q] # "" /\ seen[r] = seen[q]) =>
            /\ vpc_name[r] = vpc_name[q]
            /\ (PastTagVpc(r) /\ PastTagVpc(q)) =>
                  /\ vpc_id[r] # vpc_id[q]
                  /\ {vpc_id[r], vpc_id[q]} \subseteq VpcsTagged(vpc_name[r])

C2_Witness ==
    \E r, q \in Runs :
        /\ r # q
        /\ seen[r] = seen[q]
        /\ vpc_id[r] # vpc_id[q]
        /\ {vpc_id[r], vpc_id[q]} \subseteq DOMAIN vpcs
        /\ TagOf(vpc_id[r]) = TagOf(vpc_id[q])
        /\ TagOf(vpc_id[r]) # ""

\* C3 (as stated): the eight create/configure calls are issued in the fixed
\* order and each of them is directly followed by a create_tags call.
Configure ==
    << "create_vpc", "create_internet_gateway", "attach_internet_gateway",
       "create_subnet", "create_route", "associate_route_table",
       "create_security_group", "authorize_security_group_ingress" >>
IsConfigure(op) == \E k \in 1..Len(Configure) : Configure[k] = op
ConfigureOf(r) == SelectSeq(AfterProbe(r), IsConfigure)

C3_EachCallTagged ==
    \A r \in Runs :
        /\ IsPrefix(ConfigureOf(r), Configure)
        /\ \A k \in 1..(Len(AfterProbe(r)) - 1) :
              IsConfigure(AfterProbe(r)[k]) => AfterProbe(r)[k + 1] = "create_tags"

\* C3 (amended): after the probe a run issues the eight create/configure
\* calls in the fixed order, unconditionally, with one describe_route_tables
\* call before create_route and five create_tags calls: directly after
\* create_vpc, attach_internet_gateway, create_subnet, associate_route_table
\* and authorize_security_group_ingress.
Tagged5 ==
    {"create_vpc", "attach_internet_gateway", "create_subnet",
     "associate_route_table", "authorize_security_group_ingress"}

C3_EightCallsFiveTags ==
    \A r \in Runs :
        LET ops == AfterProbe(r) IN
        /\ IsPrefix(ConfigureOf(r), Configure)
        /\ pc[r] \in {"print", "done"} => ConfigureOf(r) = Configure
        /\ \A k \in 1..Len(ops) :
              /\ ops[k] = "create_tags" => k > 1 /\ ops[k - 1] \in Tagged5
              /\ (ops[k] \in Tagged5 /\ k < Len(ops)) => ops[k + 1] = "create_tags"
              /\ ops[k] = "describe_route_tables" =>
                    k > 1 /\ ops[k - 1] = "create_tags"
                          /\ (k < Len(ops) => ops[k + 1] = "create_route")
              /\ ops[k] = "create_tags" \/ ops[k] = "describe_route_tables"
                    \/ IsConfigure(ops[k])

C3_Witness ==
    \E r \in Runs :
        /\ pc[r] = "done"
        /\ Len(AfterProbe(r)) = Len(Configure) + Cardinality(Tagged5) + 1

\* C4: a failed API call is the last call its run issues: the run has ended
\* there and has printed nothing.
C4_FailureEndsRun ==
    \A r \in Runs :
        /\ \A k \in 1..Len(calls[r]) :
              ~calls[r][k].ok =>
                  /\ k = Len(calls[r])
                  /\ pc[r] = "failed"
                  /\ output[r] = <<>>
        /\ pc[r] = "failed" =>
              /\ calls[r] # <<>>
              /\ ~calls[r][Len(calls[r])].ok

C4_Witness ==
    \E r \in Runs :
        /\ pc[r] = "failed"
        /\ Len(calls[r]) > 2
        /\ ~calls[r][Len(calls[r])].ok
        /\ HasOk(r, "create_vpc")

\* C5: nothing is rolled back: no delete, detach or revoke call is issued,
\* and whatever a call of a run created (resource, attachment, route,
\* association, rule or tag) exists in every later state, also after the run
\* has failed.
Destructive ==
    {"delete_vpc", "delete_tags", "delete_internet_gateway",
     "detach_internet_gateway", "delete_subnet", "delete_route",
     "disassociate_route_table", "delete_security_group",
     "revoke_security_group_ingress"}

C5_NoRollback ==
    \A r \in Runs :
        /\ \A k \in 1..Len(calls[r]) :
              /\ calls[r][k].op \notin Destructive
              /\ (calls[r][k].op = "create_tags" /\ calls[r][k].ok) =>
                    \A x \in calls[r][k].ids : TagOf(x) = calls[r][k].val
              /\ calls[r][k].ok =>
                    \A x \in calls[r][k].ret :
                        x \in DOMAIN vpcs \cup DOMAIN igws \cup DOMAIN subnets
                              \cup DOMAIN rtbs \cup DOMAIN sgs
        /\ HasOk(r, "create_vpc") => vpc_id[r] \in DOMAIN vpcs
        /\ HasOk(r, "create_internet_gateway") => igw_id[r] \in DOMAIN igws
        /\ HasOk(r, "attach_internet_gateway") =>
              igw_id[r] \in DOMAIN igws /\ igws[igw_id[r]] = vpc_id[r]
        /\ HasOk(r, "create_subnet") => subnet_id[r] \in DOMAIN subnets
        /\ HasOk(r, "create_route") =>
              \E x \in routes : x.RouteTableId = route_table_id[r]
                                /\ x.GatewayId = igw_id[r]
        /\ HasOk(r, "associate_route_table") =>
              \E x \in assocs : x.RouteTableId = route_table_id[r]
                                /\ x.SubnetId = subnet_id[r]
        /\ HasOk(r, "create_security_group") => sg_id[r] \in DOMAIN sgs
        /\ HasOk(r, "authorize_security_group_ingress") =>
              \E x \in ingress : x.GroupId = sg_id[r]

\* A failure of the first create_tags has left a VPC without a Name tag.
C5_Witness ==
    \E r \in Runs :
        /\ pc[r] = "failed"
        /\ calls[r][Len(calls[r])].op = "create_tags"
        /\ vpc_id[r] \in DOMAIN vpcs
        /\ vpc_id[r] \notin DOMAIN tags

\* C6: the script is not idempotent: a run that has completed all its calls
\* has added exactly one new VPC, internet gateway, subnet, route table and
\* security group to what the region held when it started, whatever earlier
\* runs left there.
C6_EachRunAddsOne ==
    \A r \in Runs :
        pc[r] = "print" =>
            /\ vpc_id[r] \notin before[r].vpcs
            /\ DOMAIN vpcs = before[r].vpcs \cup {vpc_id[r]}
            /\ igw_id[r] \notin before[r].igws
            /\ DOMAIN igws = before[r].igws \cup {igw_id[r]}
            /\ subnet_id[r] \notin before[r].subnets
            /\ DOMAIN subnets = before[r].subnets \cup {subnet_id[r]}
            /\ route_table_id[r] \notin before[r].rtbs
            /\ DOMAIN rtbs = before[r].rtbs \cup {route_table_id[r]}
            /\ sg_id[r] \notin before[r].sgs
            /\ DOMAIN sgs = before[r].sgs \cup {sg_id[r]}

\* A second run right after a successful first one, nothing deleted.
C6_Witness ==
    \E r, q \in Runs :
        /\ pc[q] = "done" /\ output[q] # <<>>
        /\ pc[r] = "print"
        /\ deleted = 0
        /\ vpc_id[q] \in before[r].vpcs
        /\ {vpc_id[q], vpc_id[r]} \subseteq DOMAIN vpcs
        /\ vpc_id[q] # vpc_id[r]

\* C7: the summary is printed only at the end, after every API call has
\* returned successfully, and then the network of the run is complete; every
\* identifier passed to a call was returned by an earlier call of that run.
Complete(r) ==
    /\ vpc_id[r] \in DOMAIN vpcs
    /\ TagOf(vpc_id[r]) = vpc_name[r]
    /\ igw_id[r] \in DOMAIN igws
    /\ igws[igw_id[r]] = vpc_id[r]
    /\ TagOf(igw_id[r]) = vpc_name[r] \o "-igw"
    /\ subnet_id[r] \in DOMAIN subnets
    /\ subnets[subnet_id[r]].VpcId = vpc_id[r]
    /\ TagOf(subnet_id[r]) = vpc_name[r] \o "-subnet"
    /\ \E t \in DOMAIN rtbs :
          /\ rtbs[t] = vpc_id[r]
          /\ [RouteTableId |-> t, DestinationCidrBlock |-> "0.0.0.0/0",
              GatewayId |-> igw_id[r]] \in routes
          /\ [RouteTableId |-> t, SubnetId |-> subnet_id[r]] \in assocs
          /\ TagOf(t) = vpc_name[r] \o "-rt"
    /\ \E g \in DOMAIN sgs :
          /\ sgs[g].VpcId = vpc_id[r]
          /\ sgs[g].GroupName = vpc_name[r] \o "-sg"
          /\ TagOf(g) = vpc_name[r] \o "-sg"
          /\ [GroupId |-> g, IpProtocol |-> "tcp", FromPort |-> 22,
              ToPort |-> 22, CidrIp |-> "0.0.0.0/0"] \in ingress

C7_SummaryMeansComplete ==
    \A r \in Runs :
        /\ output[r] # <<>> =>
              /\ pc[r] = "done"
              /\ Len(output[r]) = 5
              /\ \A k \in 1..Len(calls[r]) : calls[r][k].ok
              /\ vpc_name[r] # ""
              /\ Complete(r)
        /\ \A k \in 1..Len(calls[r]) :
              \A x \in calls[r][k].ids :
                  \E j \in 1..(k - 1) : calls[r][j].ok /\ x \in calls[r][j].ret

C7_Witness ==
    \E r, q \in Runs :
        /\ r # q
        /\ output[q] # <<>>
        /\ output[r] # <<>>
        /\ vpc_name[r] # vpc_name[q]

\* C8: the probe branches on the bare base name.  If no VPC is tagged
\* vpc_image the chosen name is vpc_image, after one describe_vpcs call and
\* whatever suffixed names are in use; otherwise i counts up from 1, one
\* describe_vpcs call per value, to the first i whose name is unused.
C8_ProbeBranchesOnBase ==
    \A r \in Runs :
        ProbeFinished(r) =>
            LET probes == SelectSeq(calls[r], IsDescribeVpcs) IN
            /\ probes[1].val = "vpc_image"
            /\ \A k \in 2..Len(probes) : probes[k].val = NewName(k - 1)
            /\ IF VpcsTagged("vpc_image") = {}
                 THEN vpc_name[r] = "vpc_image" /\ Len(probes) = 1
                 ELSE /\ Len(probes) >= 2
                      /\ vpc_name[r] = NewName(Len(probes) - 1)
                      /\ \A k \in 1..(Len(probes) - 2) : VpcsTagged(NewName(k)) # {}
                      /\ VpcsTagged(vpc_name[r]) = {}

\* The base name is free while a suffixed name is in use.
C8_Witness ==
    \E r \in Runs :
        /\ ProbeFinished(r)
        /\ vpc_name[r] = "vpc_image"
        /\ VpcsTagged("vpc_image_1") # {}

\* C9: with runs one after another and no API failure, the probe loop of a
\* run issues at most one describe_vpcs call more than there are VPCs tagged
\* vpc_image_<i>, and every run that starts reaches its end.
C9_ProbeBound ==
    \A r \in Runs :
        pc[r] \in {"describe_new", "create_vpc"} =>
            ProbeCalls(r) - 1 <= Cardinality(SuffixedVpcs) + 1

C9_ProbeTerminates ==
    /\ []C9_ProbeBound
    /\ \A r \in Runs : (pc[r] # "idle") ~> (pc[r] = "done")

C9_Witness ==
    \E r \in Runs :
        /\ pc[r] = "done"
        /\ ProbeCalls(r) = 3
        /\ vpc_name[r] = "vpc_image_2"

\* C9, last part: when another user keeps taking the probed name, the probe
\* is still running at any value of i (violated under SpecAdv).
C9_ProbeOutrun == \A r \in Runs : i[r] < MaxProbe

\* C10: with runs one after another, no two existing VPCs carry the same
\* Name tag, and the name a run has selected is not the Name tag of any VPC
\* that exists when its probe finishes.
C10_NamesStayUnique ==
    /\ \A v, w \in DOMAIN vpcs \cap DOMAIN tags : tags[v] = tags[w] => v = w
    /\ \A r \in Runs : ProbeFinished(r) => VpcsTagged(vpc_name[r]) = {}

\* After a deletion between two runs, the VPCs of both runs carry different names.
C10_Witness ==
    \E r, q \in Runs :
        /\ r # q
        /\ deleted > 0
        /\ {vpc_id[r], vpc_id[q]} \subseteq DOMAIN vpcs \cap DOMAIN tags
        /\ tags[vpc_id[r]] # tags[vpc_id[q]]

====
